---- MODULE Spec2Model ----
(***************************************************************************)
(* Model of plugins/module_utils/proxmox_interfaces.py: the Field Mapper   *)
(* (proxmox_map_interface_args), the Reverse Mapper                        *)
(* (proxmox_to_ansible_interface_args) and the Diff Engine                 *)
(* (get_config_diff, get_diff_single_nic).                                 *)
(*                                                                         *)
(* Encoding of the Python values.                                          *)
(*  - A dict is a function over the set of its keys.  A declaration        *)
(*    attribute whose value is None is left out of the DOMAIN of the       *)
(*    declaration, so "params[k] is not None" reads k \in DOMAIN params.   *)
(*  - str values are strings, int values are integers.  The comments text  *)
(*    is a sequence of one-character strings, so that strip('\n') is       *)
(*    computed on it.                                                      *)
(*  - The values of the two boolean fields autostart and bridge_vlan_ports *)
(*    are written as Python literals: "True", "False" for the bools,       *)
(*    "1", "0" for the ints 1 and 0, "'1'", "'0'" for the strings '1' and  *)
(*    '0'.  This keeps bool, int and str apart in one field; Python's ==   *)
(*    and != on them are PyEqual and PyNotEqual (True == 1, False == 0,    *)
(*    '1' != 1).                                                           *)
(*  - The before/after members of a change record hold either a str or a   *)
(*    dict: PyStr(s) and PyDict(d) tag the two.                            *)
(*  - module.fail_json belongs to the caller's module object: that of      *)
(*    AnsibleModule ends the process, that of the unit tests' MagicMock    *)
(*    records the call and returns.  fail_json_exits tells which one the   *)
(*    run has; fail_json_calls lists the msg arguments of the calls, each  *)
(*    msg as the sequence of the pieces it is formatted from.              *)
(*  - A call ends in [exc |-> "none", value |-> v] or in a raised          *)
(*    exception [exc |-> type, field |-> name in the message,              *)
(*    value |-> the value formatted into the message].                     *)
(***************************************************************************)
EXTENDS Integers, Sequences, FiniteSets, TLC

VARIABLES
    pc,
    params,
    mapped_nic,
    current_nics,
    updated_nics,
    existing_nics,
    idx,
    ret,
    result,
    config,
    ifaces_set,
    fail_json_calls,
    fail_json_exits

vars == <<pc, params, mapped_nic, current_nics, updated_nics, existing_nics, idx, ret, result,
          config, ifaces_set, fail_json_calls, fail_json_exits>>

module_vars == <<config, ifaces_set, fail_json_calls, fail_json_exits>>

(***************************************************************************)
(* Bounds of the checked instances.                                        *)
(***************************************************************************)
MaxSet == 2

MaxDesired == 2

MaxCurrent == 2

MaxConfig == 4

(***************************************************************************)
(* Python values.                                                          *)
(***************************************************************************)
EmptyDict == [k \in {} |-> 0]

PyStr(s) == [str |-> s]

PyDict(d) == [dict |-> d]

PyNone == [none |-> TRUE]

PyTrue == "True"

PyFalse == "False"

Truthy(v) == v \notin {"False", "0", "''"}

PyNumber(v) ==
    CASE v = "True" -> "1"
      [] v = "False" -> "0"
      [] OTHER -> v

PyEqual(key, a, b) ==
    IF key \in {"autostart", "bridge_vlan_ports"} THEN PyNumber(a) = PyNumber(b) ELSE a = b

PyNotEqual(key, a, b) == ~PyEqual(key, a, b)

Returned(v) == [exc |-> "none", value |-> v]

Raised(type, field, v) == [exc |-> type, field |-> field, value |-> v]

(***************************************************************************)
(* The argument spec of one interface declaration.                         *)
(***************************************************************************)
proxmox_interface_argument_spec ==
    {"name", "type", "autostart", "bond_primary", "bond_mode",
     "bond_xmit_hash_policy", "bridge_ports", "bridge_vlan_ports", "cidr",
     "cidr6", "comments", "gateway", "gateway6", "mtu", "ovs_bonds",
     "ovs_bridge", "ovs_options", "ovs_ports", "ovs_tag", "slaves",
     "vlan_id", "vlan_raw_device", "state"}

MTU_MIN == 1280

MTU_MAX == 65520

TAG_MIN == 1

TAG_MAX == 4094

(***************************************************************************)
(* proxmox_map_interface_args: one "if params[k] is not None" per line.    *)
(***************************************************************************)
Copy(p, k, w) == IF k \in DOMAIN p THEN (w :> p[k]) ELSE EmptyDict

MtuOk_strict(p) == "mtu" \in DOMAIN p => (p["mtu"] < MTU_MAX /\ p["mtu"] > MTU_MIN)

MtuOk(p) == "mtu" \in DOMAIN p => (p["mtu"] <= MTU_MAX /\ p["mtu"] >= MTU_MIN)

OvsTagOk(p) == "ovs_tag" \in DOMAIN p => (p["ovs_tag"] >= TAG_MIN /\ p["ovs_tag"] <= TAG_MAX)

VlanIdOk_strict(p) == "vlan_id" \in DOMAIN p => (p["vlan_id"] > TAG_MIN /\ p["vlan_id"] < TAG_MAX)

VlanIdOk(p) == "vlan_id" \in DOMAIN p => (p["vlan_id"] >= TAG_MIN /\ p["vlan_id"] <= TAG_MAX)

MapAutostart_int(p) ==
    IF "autostart" \in DOMAIN p
    THEN ("autostart" :> (IF Truthy(p["autostart"]) THEN "1" ELSE "0"))
    ELSE EmptyDict

MapAutostart(p) ==
    IF "autostart" \in DOMAIN p
    THEN ("autostart" :> (IF Truthy(p["autostart"]) THEN "'1'" ELSE "'0'"))
    ELSE EmptyDict

MapBridgeVlanPorts(p) ==
    IF "bridge_vlan_ports" \in DOMAIN p
    THEN ("bridge_vlan_ports" :> (IF Truthy(p["bridge_vlan_ports"]) THEN "1" ELSE "0"))
    ELSE EmptyDict

MapVlanId(p) == Copy(p, "vlan_id", "vlan-id")

MapFields(p) ==
       Copy(p, "name", "iface")
    @@ Copy(p, "type", "type")
    @@ MapAutostart(p)
    @@ Copy(p, "bond_primary", "bond-primary")
    @@ Copy(p, "bond_mode", "bond_mode")
    @@ Copy(p, "bond_xmit_hash_policy", "bond_xmit_hash_policy")
    @@ Copy(p, "bridge_ports", "bridge_ports")
    @@ MapBridgeVlanPorts(p)
    @@ Copy(p, "cidr", "cidr")
    @@ Copy(p, "cidr6", "cidr6")
    @@ Copy(p, "gateway", "gateway")
    @@ Copy(p, "gateway6", "gateway6")
    @@ Copy(p, "comments", "comments")
    @@ Copy(p, "mtu", "mtu")
    @@ Copy(p, "ovs_bonds", "ovs_bonds")
    @@ Copy(p, "ovs_options", "ovs_options")
    @@ Copy(p, "ovs_bridge", "ovs_bridge")
    @@ Copy(p, "ovs_ports", "ovs_ports")
    @@ Copy(p, "ovs_tag", "ovs_tag")
    @@ Copy(p, "slaves", "slaves")
    @@ MapVlanId(p)
    @@ Copy(p, "vlan_raw_device", "vlan-raw-device")

VlanIdError(p) == Raised("Exception", "vlan_id", p["vlan_id"])

proxmox_map_interface_args(p) ==
    IF ~MtuOk(p) THEN Raised("ValueError", "MTU", p["mtu"])
    ELSE IF ~OvsTagOk(p) THEN Raised("ValueError", "ovs_tag", p["ovs_tag"])
    ELSE IF ~VlanIdOk(p) THEN VlanIdError(p)
    ELSE Returned(MapFields(p))

(***************************************************************************)
(* Inputs of the Field Mapper: a name, a type, a state and at most MaxSet  *)
(* further attributes set, the numeric ones on both sides of each limit.   *)
(***************************************************************************)
States == {"present", "absent"}

Types == {"bridge", "bond"}

OptAttrs == proxmox_interface_argument_spec \ {"name", "type", "state"}

AttrValues(k) ==
    CASE k \in {"autostart", "bridge_vlan_ports"} -> {PyTrue, PyFalse}
      [] k = "mtu" -> {MTU_MIN - 1, MTU_MIN, MTU_MAX, MTU_MAX + 1}
      [] k \in {"ovs_tag", "vlan_id"} -> {TAG_MIN - 1, TAG_MIN, TAG_MAX, TAG_MAX + 1}
      [] k = "comments" -> {<<"x">>, <<"x", "\n">>}
      [] k \in {"cidr", "gateway"} -> {"10.10.10.10/24", "192.168.0.1/24"}
      [] OTHER -> {"enp35s0", "eth1"}

RECURSIVE OptionSets(_)
OptionSets(n) ==
    IF n = 0 THEN {EmptyDict}
    ELSE LET prev == OptionSets(n - 1)
         IN  prev \cup UNION { UNION { { (k :> v) @@ f : v \in AttrValues(k) }
                                       : k \in OptAttrs \ DOMAIN f }
                               : f \in prev }

Base(n, t, s) == ("name" :> n) @@ ("type" :> t) @@ ("state" :> s)

MapInputs ==
    { Base("vmbr0", t, s) @@ o : t \in Types, s \in States, o \in OptionSets(MaxSet) }

(***************************************************************************)
(* SpecMap: one call of proxmox_map_interface_args.                        *)
(***************************************************************************)
Idle == [exc |-> "idle"]

InitMap ==
    /\ pc = "map"
    /\ params \in MapInputs
    /\ mapped_nic = Idle
    /\ current_nics = << >>
    /\ updated_nics = << >>
    /\ existing_nics = EmptyDict
    /\ idx = 0
    /\ ret = EmptyDict
    /\ result = Idle
    /\ config = << >>
    /\ ifaces_set = {}
    /\ fail_json_calls = << >>
    /\ fail_json_exits = TRUE

MapReturn ==
    /\ pc = "map"
    /\ proxmox_map_interface_args(params).exc = "none"
    /\ mapped_nic' = proxmox_map_interface_args(params)
    /\ pc' = "map_returned"
    /\ UNCHANGED module_vars
    /\ UNCHANGED <<params, current_nics, updated_nics, existing_nics, idx, ret, result>>

MapRaise ==
    /\ pc = "map"
    /\ proxmox_map_interface_args(params).exc # "none"
    /\ mapped_nic' = proxmox_map_interface_args(params)
    /\ pc' = "map_raised"
    /\ UNCHANGED module_vars
    /\ UNCHANGED <<params, current_nics, updated_nics, existing_nics, idx, ret, result>>

NextMap == MapReturn \/ MapRaise

SpecMap == InitMap /\ [][NextMap]_vars

(***************************************************************************)
(* proxmox_to_ansible_interface_args and the helper it imports from        *)
(* module_utils/proxmox.                                                   *)
(***************************************************************************)
proxmox_to_ansible_bool(value) == IF value \in {"1", "True"} THEN PyTrue ELSE PyFalse

booleans == {"autostart", "bridge_vlan_ports"}

proxmox_to_ansible_interface_args_first(p) ==
    [k \in DOMAIN p |-> IF k = "autostart" THEN proxmox_to_ansible_bool(p[k]) ELSE p[k]]

proxmox_to_ansible_interface_args(p) ==
    [k \in DOMAIN p |-> IF k \in booleans THEN proxmox_to_ansible_bool(p[k]) ELSE p[k]]

(***************************************************************************)
(* get_diff_single_nic: new['comments'] is rewritten in place, then every  *)
(* key of new that is not None is compared with the same key of old.       *)
(***************************************************************************)
RECURSIVE LStrip(_)
LStrip(s) == IF s # << >> /\ Head(s) = "\n" THEN LStrip(Tail(s)) ELSE s

RECURSIVE RStrip(_)
RStrip(s) == IF s # << >> /\ s[Len(s)] = "\n" THEN RStrip(SubSeq(s, 1, Len(s) - 1)) ELSE s

Strip_trailing(s) == RStrip(s)

Strip(s) == RStrip(LStrip(s))

NormalizeComments_keep(new) == new

NormalizeComments(new) ==
    IF "comments" \in DOMAIN new
    THEN [new EXCEPT !["comments"] = Strip(new["comments"]) \o <<"\n">>]
    ELSE new

ChangedKeys_all(new, old) == { key \in DOMAIN new : key \in DOMAIN old }

ChangedKeys(new, old) ==
    { key \in DOMAIN new : key \in DOMAIN old /\ PyNotEqual(key, new[key], old[key]) }

FieldDiff(new, old) ==
    [key \in ChangedKeys(new, old) |-> [before |-> old[key], after |-> new[key]]]

get_diff_single_nic(new, old) ==
    LET n == NormalizeComments(new)
    IN  IF ChangedKeys(n, old) # {} THEN PyDict(FieldDiff(n, old)) ELSE PyNone

(***************************************************************************)
(* get_config_diff: the first loop indexes the current interfaces by iface *)
(* (reverse-mapping each record in place), the second loop handles one     *)
(* declaration per step.                                                   *)
(***************************************************************************)
RECURSIVE IndexByIface(_, _)
IndexByIface(nics, acc) ==
    IF nics = << >> THEN acc
    ELSE IndexByIface(Tail(nics),
                      (Head(nics)["iface"] :> proxmox_to_ansible_interface_args(Head(nics))) @@ acc)

Put(d, k, v) == (k :> v) @@ d

DeleteRecord_empty(old) == [before |-> PyStr(""), after |-> PyStr("absent")]

DeleteRecord(old) == [before |-> PyDict(old), after |-> PyStr("absent")]

CreateRecord_swapped(mapped) == [before |-> PyDict(mapped), after |-> PyStr("")]

CreateRecord_normalized(mapped) == [before |-> PyStr(""), after |-> PyDict(NormalizeComments(mapped))]

CreateRecord(mapped) == [before |-> PyStr(""), after |-> PyDict(mapped)]

InLoop == pc = "loop" /\ idx <= Len(updated_nics)

IndexCurrent ==
    /\ pc = "index"
    /\ existing_nics' = IndexByIface(current_nics, EmptyDict)
    /\ current_nics' = [i \in DOMAIN current_nics |-> proxmox_to_ansible_interface_args(current_nics[i])]
    /\ idx' = 1
    /\ pc' = "loop"
    /\ UNCHANGED module_vars
    /\ UNCHANGED <<params, mapped_nic, updated_nics, ret, result>>

DiffValidationError ==
    /\ InLoop
    /\ LET nic == updated_nics[idx]
           m == proxmox_map_interface_args(nic)
       IN  /\ m.exc # "none"
           /\ mapped_nic' = m
           /\ result' = m
           /\ pc' = "raised"
    /\ UNCHANGED module_vars
    /\ UNCHANGED <<params, current_nics, updated_nics, existing_nics, idx, ret>>

DiffDelete ==
    /\ InLoop
    /\ LET nic == updated_nics[idx]
           name == nic["name"]
           m == proxmox_map_interface_args(nic)
       IN  /\ m.exc = "none"
           /\ nic["state"] = "absent"
           /\ name \in DOMAIN existing_nics
           /\ mapped_nic' = m
           /\ ret' = Put(ret, name, DeleteRecord(existing_nics[name]))
    /\ idx' = idx + 1
    /\ UNCHANGED module_vars
    /\ UNCHANGED <<pc, params, current_nics, updated_nics, existing_nics, result>>

DiffDeleteMissing ==
    /\ InLoop
    /\ LET nic == updated_nics[idx]
           name == nic["name"]
           m == proxmox_map_interface_args(nic)
       IN  /\ m.exc = "none"
           /\ nic["state"] = "absent"
           /\ name \notin DOMAIN existing_nics
           /\ mapped_nic' = m
           /\ result' = Raised("KeyError", "name", name)
           /\ pc' = "raised"
    /\ UNCHANGED module_vars
    /\ UNCHANGED <<params, current_nics, updated_nics, existing_nics, idx, ret>>

DiffCreate ==
    /\ InLoop
    /\ LET nic == updated_nics[idx]
           name == nic["name"]
           m == proxmox_map_interface_args(nic)
       IN  /\ m.exc = "none"
           /\ nic["state"] # "absent"
           /\ name \notin DOMAIN existing_nics
           /\ mapped_nic' = m
           /\ ret' = Put(ret, name, CreateRecord(m.value))
    /\ idx' = idx + 1
    /\ UNCHANGED module_vars
    /\ UNCHANGED <<pc, params, current_nics, updated_nics, existing_nics, result>>

DiffUpdate ==
    /\ InLoop
    /\ LET nic == updated_nics[idx]
           name == nic["name"]
           m == proxmox_map_interface_args(nic)
       IN  /\ m.exc = "none"
           /\ nic["state"] # "absent"
           /\ name \in DOMAIN existing_nics
           /\ mapped_nic' = m
           /\ updated_nics' = [updated_nics EXCEPT ![idx] = NormalizeComments(nic)]
           /\ LET diff == get_diff_single_nic(nic, existing_nics[name])
              IN  ret' = IF diff # PyNone THEN Put(ret, name, diff.dict) ELSE ret
    /\ idx' = idx + 1
    /\ UNCHANGED module_vars
    /\ UNCHANGED <<pc, params, current_nics, existing_nics, result>>

DiffReturn_mapping ==
    /\ pc = "loop"
    /\ idx > Len(updated_nics)
    /\ result' = Returned(PyDict(ret))
    /\ pc' = "returned"
    /\ UNCHANGED module_vars
    /\ UNCHANGED <<params, mapped_nic, current_nics, updated_nics, existing_nics, idx, ret>>

DiffReturn ==
    /\ pc = "loop"
    /\ idx > Len(updated_nics)
    /\ result' = IF Cardinality(DOMAIN ret) > 0 THEN Returned(PyDict(ret)) ELSE Returned(PyNone)
    /\ pc' = "returned"
    /\ UNCHANGED module_vars
    /\ UNCHANGED <<params, mapped_nic, current_nics, updated_nics, existing_nics, idx, ret>>

(***************************************************************************)
(* Inputs of the Diff Engine: at most MaxCurrent live interfaces with      *)
(* distinct names and at most MaxDesired declarations with distinct names  *)
(* (check_doublicates has passed).  A caller that bypasses the argument    *)
(* spec can pass the int 1 or 0 in a boolean attribute: one declaration    *)
(* does.  Every name has the same live records and the same declarations,  *)
(* so both lists are taken in the order of Names: any other list is one of *)
(* these with the names exchanged.                                         *)
(***************************************************************************)
Names == <<"bond0", "vmbr0", "vmbr1">>

CidrOld == "10.10.10.10/24"

CidrNew == "192.168.0.1/24"

FullRecord(n) ==
    [k \in {"iface", "type", "active", "autostart", "bridge_vlan_ports", "cidr", "comments",
            "mtu", "bond-primary", "vlan-id", "vlan-raw-device"} |->
        CASE k = "iface" -> n
          [] k = "type" -> "bridge"
          [] k = "active" -> 1
          [] k = "autostart" -> "1"
          [] k = "bridge_vlan_ports" -> "0"
          [] k = "cidr" -> CidrOld
          [] k = "comments" -> <<"x", "\n">>
          [] k = "mtu" -> 1500
          [] k = "bond-primary" -> "enp35s0"
          [] k = "vlan-id" -> 5
          [] k = "vlan-raw-device" -> "enp35s0"]

MinimalRecord(n) ==
    [k \in {"iface", "type", "active", "autostart"} |->
        CASE k = "iface" -> n
          [] k = "type" -> "bridge"
          [] k = "active" -> 1
          [] k = "autostart" -> "0"]

LiveRecords(n) == {FullRecord(n), MinimalRecord(n)}

RECURSIVE CurrentListsFrom(_, _)
CurrentListsFrom(i, room) ==
    IF i > Len(Names) \/ room = 0 THEN {<< >>}
    ELSE CurrentListsFrom(i + 1, room)
         \cup { <<r>> \o rest : r \in LiveRecords(Names[i]), rest \in CurrentListsFrom(i + 1, room - 1) }

CurrentLists == CurrentListsFrom(1, MaxCurrent)

PresentOptions ==
    { EmptyDict,
      ("cidr" :> CidrOld) @@ ("comments" :> <<"x">>) @@ ("autostart" :> PyTrue) @@ ("mtu" :> 1500),
      ("cidr" :> CidrNew) @@ ("comments" :> <<"y">>),
      ("comments" :> <<"\n", "x">>),
      ("comments" :> <<"x", "\n", "\n">>),
      ("comments" :> <<"\n", "x", "\n", "y">>),
      ("autostart" :> PyFalse) @@ ("bridge_vlan_ports" :> PyTrue),
      ("autostart" :> "1") @@ ("bridge_vlan_ports" :> "0"),
      ("bond_primary" :> "eth1") @@ ("vlan_id" :> 7) @@ ("vlan_raw_device" :> "eth1"),
      ("mtu" :> 1279),
      ("vlan_id" :> 4095) }

AbsentOptions ==
    { EmptyDict,
      ("cidr" :> CidrNew) @@ ("comments" :> <<"y">>),
      ("mtu" :> 1279) }

Declarations(n) ==
    { Base(n, "bridge", "present") @@ o : o \in PresentOptions }
    \cup { Base(n, "bridge", "absent") @@ o : o \in AbsentOptions }

RECURSIVE DesiredListsFrom(_, _)
DesiredListsFrom(i, room) ==
    IF i > Len(Names) \/ room = 0 THEN {<< >>}
    ELSE DesiredListsFrom(i + 1, room)
         \cup { <<d>> \o rest : d \in Declarations(Names[i]), rest \in DesiredListsFrom(i + 1, room - 1) }

DesiredLists == DesiredListsFrom(1, MaxDesired) \ {<< >>}

Init ==
    /\ pc = "index"
    /\ params = EmptyDict
    /\ mapped_nic = Idle
    /\ current_nics \in CurrentLists
    /\ updated_nics \in DesiredLists
    /\ existing_nics = EmptyDict
    /\ idx = 0
    /\ ret = EmptyDict
    /\ result = Idle
    /\ config = << >>
    /\ ifaces_set = {}
    /\ fail_json_calls = << >>
    /\ fail_json_exits = TRUE

Next ==
    \/ IndexCurrent
    \/ DiffValidationError
    \/ DiffDelete
    \/ DiffDeleteMissing
    \/ DiffCreate
    \/ DiffUpdate
    \/ DiffReturn

Spec == Init /\ [][Next]_vars

(***************************************************************************)
(* get_nics: the list the API gives for module.params['node'], or, when    *)
(* the API raises, a fail_json call and (if that returns) the empty list.  *)
(* The caller loads the current interfaces before it runs the duplicate    *)
(* check, so SpecDup starts with this call.                                *)
(***************************************************************************)
Nodes == {"node01"}

ApiErrors == {"boom"}

ApiLists == {<< >>, <<MinimalRecord(Names[1])>>}

GetNicsMsg(node, e) == <<"Getting information from Node ", node, " failed with exception: ", e>>

GetNicsReturn ==
    /\ pc = "get_nics"
    /\ \E nics \in ApiLists : current_nics' = nics
    /\ pc' = "check"
    /\ UNCHANGED <<params, mapped_nic, updated_nics, existing_nics, idx, ret, result>>
    /\ UNCHANGED module_vars

GetNicsFail ==
    /\ pc = "get_nics"
    /\ \E e \in ApiErrors :
           fail_json_calls' = Append(fail_json_calls, GetNicsMsg(params["node"], e))
    /\ pc' = IF fail_json_exits THEN "get_nics_exited" ELSE "check"
    /\ current_nics' = << >>
    /\ UNCHANGED <<params, mapped_nic, updated_nics, existing_nics, idx, ret, result>>
    /\ UNCHANGED <<config, ifaces_set, fail_json_exits>>

(***************************************************************************)
(* check_doublicates: one name of module.params['config'] per step.        *)
(***************************************************************************)
ifaces == [i \in DOMAIN config |-> config[i]["name"]]

IsDoublicate_any(iface, seen) == seen # {}

IsDoublicate(iface, seen) == iface \in seen

FailMsg(iface) == <<"Interface ", iface, " can only be present once in list">>

InDupLoop == pc = "check" /\ idx <= Len(config)

DupFail ==
    /\ InDupLoop
    /\ IsDoublicate(ifaces[idx], ifaces_set)
    /\ fail_json_calls' = Append(fail_json_calls, FailMsg(ifaces[idx]))
    /\ IF fail_json_exits
       THEN pc' = "exited" /\ idx' = idx
       ELSE pc' = pc /\ idx' = idx + 1
    /\ UNCHANGED <<params, mapped_nic, current_nics, updated_nics, existing_nics, ret, result>>
    /\ UNCHANGED <<config, ifaces_set, fail_json_exits>>

DupAdd ==
    /\ InDupLoop
    /\ ~IsDoublicate(ifaces[idx], ifaces_set)
    /\ ifaces_set' = ifaces_set \cup {ifaces[idx]}
    /\ idx' = idx + 1
    /\ UNCHANGED <<pc, params, mapped_nic, current_nics, updated_nics, existing_nics, ret, result>>
    /\ UNCHANGED <<config, fail_json_calls, fail_json_exits>>

DupReturn ==
    /\ pc = "check"
    /\ idx > Len(config)
    /\ pc' = "checked"
    /\ UNCHANGED <<params, mapped_nic, current_nics, updated_nics, existing_nics, idx, ret, result>>
    /\ UNCHANGED module_vars

RECURSIVE ConfigLists(_)
ConfigLists(n) ==
    IF n = 0 THEN {<< >>}
    ELSE LET shorter == ConfigLists(n - 1)
         IN  shorter \cup { Append(c, ("name" :> Names[i]) @@ ("type" :> "bridge"))
                              : c \in shorter, i \in DOMAIN Names }

InitDup ==
    /\ pc = "get_nics"
    /\ params \in { ("node" :> node) : node \in Nodes }
    /\ mapped_nic = Idle
    /\ current_nics = << >>
    /\ updated_nics = << >>
    /\ existing_nics = EmptyDict
    /\ idx = 1
    /\ ret = EmptyDict
    /\ result = Idle
    /\ config \in ConfigLists(MaxConfig)
    /\ ifaces_set = {}
    /\ fail_json_calls = << >>
    /\ fail_json_exits \in BOOLEAN

NextDup == GetNicsReturn \/ GetNicsFail \/ DupFail \/ DupAdd \/ DupReturn

SpecDup == InitDup /\ [][NextDup]_vars

(***************************************************************************)
(* SpecRev: proxmox_to_ansible_interface_args applied to a live record,    *)
(* then to its own result (ret = params: the record is changed in place).  *)
(***************************************************************************)
WireBooleans == {"1", "0", PyTrue, PyFalse}

Optional(k, values) == {EmptyDict} \cup { (k :> v) : v \in values }

RevInputs ==
    { ("iface" :> Names[i]) @@ ("type" :> "bridge") @@ a @@ b @@ c @@ t
        : i \in DOMAIN Names,
          a \in Optional("autostart", WireBooleans),
          b \in Optional("bridge_vlan_ports", WireBooleans),
          c \in Optional("cidr", {CidrOld, CidrNew}),
          t \in Optional("comments", {<<"x", "\n">>}) }

InitRev ==
    /\ pc = "reverse"
    /\ params \in RevInputs
    /\ mapped_nic = Idle
    /\ current_nics = << >>
    /\ updated_nics = << >>
    /\ existing_nics = EmptyDict
    /\ idx = 0
    /\ ret = EmptyDict
    /\ result = Idle
    /\ config = << >>
    /\ ifaces_set = {}
    /\ fail_json_calls = << >>
    /\ fail_json_exits = TRUE

ReverseMap ==
    /\ pc = "reverse"
    /\ idx < 2
    /\ params' = proxmox_to_ansible_interface_args(params)
    /\ result' = Returned(params')
    /\ idx' = idx + 1
    /\ UNCHANGED module_vars
    /\ UNCHANGED <<pc, mapped_nic, current_nics, updated_nics, existing_nics, ret>>

NextRev == ReverseMap

SpecRev == InitRev /\ [][NextRev]_vars

(***************************************************************************)
(* Claims about the Field Mapper, checked under SpecMap.                   *)
(***************************************************************************)
MapReturned == pc = "map_returned"

MapRaised == pc = "map_raised"

MapDone == pc \in {"map_returned", "map_raised"}

IsSet(k) == k \in DOMAIN params

WireName(k) ==
    CASE k = "name" -> "iface"
      [] k = "bond_primary" -> "bond-primary"
      [] k = "vlan_id" -> "vlan-id"
      [] k = "vlan_raw_device" -> "vlan-raw-device"
      [] OTHER -> k

MappedAttrs == proxmox_interface_argument_spec \ {"state"}

BooleanAttrs == {"autostart", "bridge_vlan_ports"}

InRange(k, lo, hi) == IsSet(k) => (lo <= params[k] /\ params[k] <= hi)

AllInRange == InRange("mtu", 1280, 65520) /\ InRange("ovs_tag", 1, 4094) /\ InRange("vlan_id", 1, 4094)

\* C1: a declaration whose mtu, ovs_tag and vlan_id are unset or in range is
\* mapped to a record whose keys are exactly the wire names of its set
\* attributes (the state directive is not an attribute of the wire record);
\* non-boolean values are copied, autostart becomes '1'/'0' and
\* bridge_vlan_ports 1/0.
ThmC1 ==
    (MapDone /\ AllInRange) =>
        /\ MapReturned
        /\ DOMAIN mapped_nic.value = { WireName(k) : k \in DOMAIN params \cap MappedAttrs }
        /\ "state" \notin DOMAIN mapped_nic.value
        /\ \A k \in (DOMAIN params \cap MappedAttrs) \ BooleanAttrs :
               mapped_nic.value[WireName(k)] = params[k]
        /\ IsSet("autostart") =>
               mapped_nic.value["autostart"] = (IF params["autostart"] = PyTrue THEN "'1'" ELSE "'0'")
        /\ IsSet("bridge_vlan_ports") =>
               mapped_nic.value["bridge_vlan_ports"] = (IF params["bridge_vlan_ports"] = PyTrue THEN "1" ELSE "0")

WitC1 ==
    /\ MapReturned
    /\ IsSet("autostart") /\ IsSet("bond_primary")
    /\ ~IsSet("cidr")
    /\ mapped_nic.value["bond-primary"] = params["bond_primary"]

\* C2 as stated: with mtu set, the call fails if and only if mtu is outside
\* [1280, 65520], and a successful call copies mtu.
CexC2 ==
    (MapDone /\ IsSet("mtu")) =>
        /\ MapRaised <=> (params["mtu"] < 1280 \/ params["mtu"] > 65520)
        /\ MapReturned => mapped_nic.value["mtu"] = params["mtu"]

\* C2 amended: with mtu set, the call fails whenever mtu is outside
\* [1280, 65520], and it raises the MTU error exactly then; when ovs_tag and
\* vlan_id are unset or in range it fails if and only if mtu is outside the
\* range; a successful call copies mtu unchanged.
ThmC2 ==
    (MapDone /\ IsSet("mtu")) =>
        /\ (params["mtu"] < 1280 \/ params["mtu"] > 65520) => MapRaised
        /\ (MapRaised /\ mapped_nic.field = "MTU") <=> (params["mtu"] < 1280 \/ params["mtu"] > 65520)
        /\ (InRange("ovs_tag", 1, 4094) /\ InRange("vlan_id", 1, 4094)) =>
               (MapRaised <=> (params["mtu"] < 1280 \/ params["mtu"] > 65520))
        /\ MapReturned => mapped_nic.value["mtu"] = params["mtu"]

WitC2 ==
    /\ MapReturned
    /\ IsSet("mtu") /\ params["mtu"] = 65520
    /\ mapped_nic.value["mtu"] = 65520

\* C3: the call fails when ovs_tag or vlan_id is set outside [1, 4094]; when
\* both are unset or in range (and mtu does not fail) it succeeds and the
\* values are copied, ovs_tag under ovs_tag and vlan_id under vlan-id.
ThmC3 ==
    MapDone =>
        /\ ~(InRange("ovs_tag", 1, 4094) /\ InRange("vlan_id", 1, 4094)) => MapRaised
        /\ AllInRange => MapReturned
        /\ MapReturned =>
               /\ IsSet("ovs_tag") <=> "ovs_tag" \in DOMAIN mapped_nic.value
               /\ IsSet("vlan_id") <=> "vlan-id" \in DOMAIN mapped_nic.value
               /\ "vlan_id" \notin DOMAIN mapped_nic.value
               /\ IsSet("ovs_tag") => mapped_nic.value["ovs_tag"] = params["ovs_tag"]
               /\ IsSet("vlan_id") => mapped_nic.value["vlan-id"] = params["vlan_id"]

WitC3 ==
    /\ MapReturned
    /\ IsSet("ovs_tag") /\ params["ovs_tag"] = 1
    /\ IsSet("vlan_id") /\ params["vlan_id"] = 4094
    /\ mapped_nic.value["vlan-id"] = 4094

\* C4: every range-validation failure is a ValueError that carries the
\* offending field and the offending value.
CexC4 ==
    MapRaised =>
        /\ mapped_nic.exc = "ValueError"
        /\ \/ mapped_nic.field = "MTU" /\ mapped_nic.value = params["mtu"]
           \/ mapped_nic.field = "ovs_tag" /\ mapped_nic.value = params["ovs_tag"]
           \/ mapped_nic.field = "vlan_id" /\ mapped_nic.value = params["vlan_id"]

(***************************************************************************)
(* Claims about the Diff Engine, checked under Spec.                       *)
(***************************************************************************)
Indexed == pc \in {"loop", "returned", "raised"}

Handled(i) == Indexed /\ i < idx

FailedAt(i) == pc = "raised" /\ i = idx

DiffReturned == pc = "returned"

DeclInRange(d) ==
    /\ "mtu" \in DOMAIN d => (1280 <= d["mtu"] /\ d["mtu"] <= 65520)
    /\ "ovs_tag" \in DOMAIN d => (1 <= d["ovs_tag"] /\ d["ovs_tag"] <= 4094)
    /\ "vlan_id" \in DOMAIN d => (1 <= d["vlan_id"] /\ d["vlan_id"] <= 4094)

LiveNames == { current_nics[j]["iface"] : j \in DOMAIN current_nics }

Live(n) == current_nics[CHOOSE j \in DOMAIN current_nics : current_nics[j]["iface"] = n]

ReverseOf(raw) ==
    [k \in DOMAIN raw |-> IF k \in BooleanAttrs
                          THEN (IF raw[k] = "1" THEN PyTrue ELSE PyFalse)
                          ELSE raw[k]]

IsDiffEntry(e) == DOMAIN e \cap {"before", "after"} = {}

\* C5: an absent declaration (with valid fields) whose name is not among
\* the current interfaces produces no entry and no failure, and the loop
\* goes on to the next declaration.
CexC5 ==
    \A i \in DOMAIN updated_nics :
        LET d == updated_nics[i]
        IN  (Indexed /\ d["state"] = "absent" /\ d["name"] \notin LiveNames /\ DeclInRange(d)) =>
                /\ ~FailedAt(i)
                /\ Handled(i) => d["name"] \notin DOMAIN ret

\* C6 as stated: an absent declaration whose name exists among the current
\* interfaces gets {before: reverse-mapped current record, after: 'absent'},
\* whatever its other attributes are.
CexC6 ==
    \A i \in DOMAIN updated_nics :
        LET d == updated_nics[i]
        IN  (Indexed /\ d["state"] = "absent" /\ d["name"] \in LiveNames) =>
                /\ ~FailedAt(i)
                /\ Handled(i) =>
                       /\ d["name"] \in DOMAIN ret
                       /\ ret[d["name"]] = [before |-> PyDict(Live(d["name"])), after |-> PyStr("absent")]

\* C6 amended: the deletion record is emitted whatever the other attributes
\* of d are, provided its mtu, ovs_tag and vlan_id are unset or in range;
\* the record is in the returned change set whenever get_config_diff
\* returns, and its before member is the reverse-mapped current record.
ThmC6 ==
    \A i \in DOMAIN updated_nics :
        LET d == updated_nics[i]
        IN  (Indexed /\ d["state"] = "absent" /\ d["name"] \in LiveNames /\ DeclInRange(d)) =>
                /\ ~FailedAt(i)
                /\ Handled(i) =>
                       /\ d["name"] \in DOMAIN ret
                       /\ ret[d["name"]] = [before |-> PyDict(Live(d["name"])), after |-> PyStr("absent")]
                       /\ \E raw \in LiveRecords(d["name"]) : ret[d["name"]].before = PyDict(ReverseOf(raw))
                /\ DiffReturned =>
                       /\ result.exc = "none"
                       /\ result.value = PyDict(ret)

WitC6 ==
    /\ DiffReturned
    /\ \E i \in DOMAIN updated_nics :
           /\ updated_nics[i]["state"] = "absent"
           /\ "cidr" \in DOMAIN updated_nics[i]
           /\ result.value.dict[updated_nics[i]["name"]].after = PyStr("absent")
           /\ result.value.dict[updated_nics[i]["name"]].before.dict["autostart"] = PyTrue

MappedOf(d) ==
    [w \in { WireName(k) : k \in DOMAIN d \cap MappedAttrs } |->
        LET k == CHOOSE a \in DOMAIN d \cap MappedAttrs : WireName(a) = w
        IN  IF k = "autostart" THEN (IF d[k] \in {PyTrue, "1"} THEN "'1'" ELSE "'0'")
            ELSE IF k = "bridge_vlan_ports" THEN (IF d[k] \in {PyTrue, "1"} THEN "1" ELSE "0")
            ELSE d[k]]

\* C7: a present declaration whose name is not among the current interfaces
\* gets the creation record {before: '', after: FieldMapper(d)}, the after
\* member holding exactly the wire keys of the set attributes of d.
ThmC7 ==
    \A i \in DOMAIN updated_nics :
        LET d == updated_nics[i]
        IN  (Handled(i) /\ d["state"] = "present" /\ d["name"] \notin LiveNames) =>
                /\ d["name"] \in DOMAIN ret
                /\ ret[d["name"]] = [before |-> PyStr(""), after |-> PyDict(MappedOf(d))]
                /\ DiffReturned => result.value = PyDict(ret)

WitC7 ==
    /\ DiffReturned
    /\ \E i \in DOMAIN updated_nics :
           /\ updated_nics[i]["state"] = "present"
           /\ "bond_primary" \in DOMAIN updated_nics[i]
           /\ updated_nics[i]["name"] \notin LiveNames
           /\ result.value.dict[updated_nics[i]["name"]].before = PyStr("")
           /\ "bond-primary" \in DOMAIN result.value.dict[updated_nics[i]["name"]].after.dict

EndsWithOneNewline(c) ==
    /\ c # << >>
    /\ c[Len(c)] = "\n"
    /\ Len(c) >= 2 => c[Len(c) - 1] # "\n"

NewWithComments(i) ==
    /\ Handled(i)
    /\ updated_nics[i]["state"] = "present"
    /\ updated_nics[i]["name"] \notin LiveNames
    /\ "comments" \in DOMAIN updated_nics[i]

\* C8 as stated: in the creation record of a new interface that declares
\* comments, the comments of the after member end with exactly one newline.
CexC8 ==
    \A i \in DOMAIN updated_nics :
        NewWithComments(i) =>
            EndsWithOneNewline(ret[updated_nics[i]["name"]].after.dict["comments"])

\* C8 amended: in the creation record of a new interface that declares
\* comments, the comments of the after member are the declared comments
\* unchanged ('x' stays 'x'); no newline is stripped or appended.
ThmC8 ==
    \A i \in DOMAIN updated_nics :
        NewWithComments(i) =>
            ret[updated_nics[i]["name"]].after.dict["comments"] = updated_nics[i]["comments"]

WitC8 ==
    /\ DiffReturned
    /\ \E i \in DOMAIN updated_nics :
           /\ NewWithComments(i)
           /\ updated_nics[i]["comments"] = <<"x">>
           /\ result.value.dict[updated_nics[i]["name"]].after.dict["comments"] = <<"x">>

Normalized(k, v) == IF k = "comments" THEN Strip(v) \o <<"\n">> ELSE v

AlreadyMatches(d) ==
    /\ d["state"] = "present"
    /\ d["name"] \in LiveNames
    /\ \A k \in DOMAIN d \ {"state"} :
           /\ WireName(k) \in DOMAIN Live(d["name"])
           /\ PyEqual(k, Normalized(k, d[k]), Live(d["name"])[WireName(k)])

\* C9: when every declaration is present and each of its set fields equals
\* the corresponding field of the reverse-mapped current record of the same
\* name (comments after newline normalization, booleans as booleans),
\* get_config_diff returns None.
ThmC9 ==
    (pc \in {"returned", "raised"} /\ \A i \in DOMAIN updated_nics : AlreadyMatches(updated_nics[i])) =>
        /\ DiffReturned
        /\ result = Returned(PyNone)

WitC9 ==
    /\ DiffReturned
    /\ result = Returned(PyNone)
    /\ \A i \in DOMAIN updated_nics : AlreadyMatches(updated_nics[i])
    /\ \E i \in DOMAIN updated_nics :
           /\ {"comments", "autostart", "cidr"} \subseteq DOMAIN updated_nics[i]
           /\ Live(updated_nics[i]["name"])["autostart"] = PyTrue

UpdateStep ==
    /\ InLoop
    /\ idx' = idx + 1
    /\ updated_nics[idx]["state"] = "present"
    /\ updated_nics[idx]["name"] \in DOMAIN existing_nics

Differing(d, old) == { k \in DOMAIN d : k \in DOMAIN old /\ PyNotEqual(k, d[k], old[k]) }

EntryIs(d, old) ==
    LET name == d["name"]
    IN  IF Differing(d, old) = {}
        THEN name \notin DOMAIN ret'
        ELSE /\ name \in DOMAIN ret'
             /\ DOMAIN ret'[name] = Differing(d, old)
             /\ \A k \in Differing(d, old) : ret'[name][k] = [before |-> old[k], after |-> d[k]]

\* C10 as stated: the change entry of an existing present declaration holds
\* exactly the fields that are set in the declaration, exist in the current
\* record and differ from it, each with {before: current, after: declared}.
CexC10 ==
    [][UpdateStep => EntryIs(updated_nics[idx], existing_nics[updated_nics[idx]["name"]])]_vars

\* C10 amended: the same, with a set comments value of the declaration first
\* normalized (newlines stripped at both ends, one newline appended): the
\* normalized value is the one compared and the one reported as after.
ThmC10 ==
    [][UpdateStep =>
          EntryIs([k \in DOMAIN updated_nics[idx] |-> Normalized(k, updated_nics[idx][k])],
                  existing_nics[updated_nics[idx]["name"]])]_vars

WitC10 ==
    /\ DiffReturned
    /\ result.value # PyNone
    /\ \E i \in DOMAIN updated_nics :
           LET name == updated_nics[i]["name"]
           IN  /\ name \in DOMAIN result.value.dict
               /\ DOMAIN result.value.dict[name] = {"cidr", "comments"}
               /\ result.value.dict[name]["cidr"] = [before |-> CidrOld, after |-> CidrNew]
               /\ result.value.dict[name]["comments"] = [before |-> <<"x", "\n">>, after |-> <<"y", "\n">>]

(***************************************************************************)
(* Claims about the Duplicate Checker, checked under SpecDup.              *)
(***************************************************************************)
DupDone == pc \in {"checked", "exited"}

RepeatPositions == { j \in DOMAIN config : \E i \in 1..(j - 1) : config[i]["name"] = config[j]["name"] }

HasRepeat == RepeatPositions # {}

FirstRepeat == CHOOSE j \in RepeatPositions : \A k \in RepeatPositions : j <= k

RepeatsUpTo(j) == Cardinality({ k \in RepeatPositions : k <= j })

NamedIn(call) == call[2]

ByDuplicateCheck(call) == call[1] = "Interface "

DupCalls == SelectSeq(fail_json_calls, ByDuplicateCheck)

\* C11 as stated: check_doublicates reports a failure if and only if some
\* name occurs more than once; then it reports exactly one failure, naming
\* the first name whose repeated occurrence is met in input order; on a
\* batch of distinct names it makes no fail_json call.
CexC11 ==
    DupDone =>
        /\ (DupCalls # << >>) <=> HasRepeat
        /\ HasRepeat =>
               /\ Len(DupCalls) = 1
               /\ NamedIn(DupCalls[1]) = config[FirstRepeat]["name"]

\* C11 amended: check_doublicates reports a failure if and only if some
\* name occurs more than once, and its first failure names the first name
\* whose repeated occurrence is met in input order.  With a fail_json that
\* ends the run (AnsibleModule) it is the only one; with a fail_json that
\* returns (the mock of the unit tests) the loop goes on and makes one call
\* per repeated occurrence, in input order.
ThmC11 ==
    DupDone =>
        /\ (DupCalls # << >>) <=> HasRepeat
        /\ HasRepeat =>
               /\ NamedIn(DupCalls[1]) = config[FirstRepeat]["name"]
               /\ DupCalls[1] = <<"Interface ", config[FirstRepeat]["name"], " can only be present once in list">>
        /\ fail_json_exits => (Len(DupCalls) <= 1 /\ (HasRepeat <=> pc = "exited"))
        /\ ~fail_json_exits =>
               /\ pc = "checked"
               /\ Len(DupCalls) = Cardinality(RepeatPositions)
               /\ \A j \in RepeatPositions :
                      NamedIn(DupCalls[RepeatsUpTo(j)]) = config[j]["name"]

WitC11 ==
    /\ pc = "exited"
    /\ Len(config) = 4
    /\ config[1]["name"] = config[4]["name"]
    /\ config[2]["name"] = config[3]["name"]
    /\ config[1]["name"] # config[2]["name"]
    /\ DupCalls = << <<"Interface ", config[3]["name"], " can only be present once in list">> >>

(***************************************************************************)
(* Claims about the Reverse Mapper, checked under SpecRev.                 *)
(***************************************************************************)
RevStep == pc = "reverse" /\ idx' = idx + 1

\* C12: an application of the Reverse Mapper adds and removes no key, turns
\* autostart and bridge_vlan_ports (when present) into booleans (true for
\* 1 or True), keeps every other value, and applied to its own result it
\* changes nothing.
ThmC12 ==
    [][RevStep =>
          /\ DOMAIN params' = DOMAIN params
          /\ \A k \in DOMAIN params \cap BooleanAttrs :
                 /\ params'[k] \in {PyTrue, PyFalse}
                 /\ params'[k] = PyTrue <=> params[k] \in {"1", PyTrue}
          /\ \A k \in DOMAIN params \ BooleanAttrs : params'[k] = params[k]
          /\ idx = 1 => params' = params
          /\ result' = Returned(params')]_vars

WitC12 ==
    /\ pc = "reverse"
    /\ idx = 2
    /\ {"autostart", "bridge_vlan_ports", "cidr"} \subseteq DOMAIN params
    /\ params["autostart"] = PyTrue
    /\ params["bridge_vlan_ports"] = PyFalse
    /\ result = Returned(params)

(***************************************************************************)
(* Further claims about the Diff Engine, checked under Spec.               *)
(***************************************************************************)
Offenders == { i \in DOMAIN updated_nics : ~DeclInRange(updated_nics[i]) }

FirstOffender == CHOOSE i \in Offenders : \A j \in Offenders : i <= j

DiffEnded == pc \in {"returned", "raised"}

\* C13: when some declaration has an out-of-range mtu, ovs_tag or vlan_id,
\* get_config_diff fails at that declaration (the first such one) with the
\* range failure of that field, whatever its position and state, and
\* returns no change set.
CexC13 ==
    (DiffEnded /\ Offenders # {}) =>
        /\ pc = "raised"
        /\ idx = FirstOffender
        /\ result.exc \in {"ValueError", "Exception"}
        /\ result.field \in {"MTU", "ovs_tag", "vlan_id"}

RenamedAttrs == {"bond_primary", "vlan_id", "vlan_raw_device"}

ReportedAs(entry, key, before, after) ==
    /\ key \in DOMAIN entry
    /\ entry[key] = [before |-> before, after |-> after]

\* C14: in the update path a declared bond_primary, vlan_id or
\* vlan_raw_device that differs from the bond-primary, vlan-id or
\* vlan-raw-device of the current record is reported as changed, with the
\* current value as before and the declared value as after.
CexC14 ==
    [][UpdateStep =>
          LET d == updated_nics[idx]
              old == existing_nics[d["name"]]
          IN  \A k \in RenamedAttrs \cap DOMAIN d :
                  (WireName(k) \in DOMAIN old /\ d[k] # old[WireName(k)]) =>
                      /\ d["name"] \in DOMAIN ret'
                      /\ \/ ReportedAs(ret'[d["name"]], WireName(k), old[WireName(k)], d[k])
                         \/ ReportedAs(ret'[d["name"]], k, old[WireName(k)], d[k])]_vars

IsText(c, i) == i \in DOMAIN c /\ c[i] # "\n"

LastText(c) == IF \E i \in DOMAIN c : IsText(c, i)
               THEN CHOOSE i \in DOMAIN c : IsText(c, i) /\ \A j \in DOMAIN c : IsText(c, j) => j <= i
               ELSE 0

FirstText(c) == IF \E i \in DOMAIN c : IsText(c, i)
                THEN CHOOSE i \in DOMAIN c : IsText(c, i) /\ \A j \in DOMAIN c : IsText(c, j) => i <= j
                ELSE 1

TrailingOnly(c) == SubSeq(c, 1, LastText(c)) \o <<"\n">>

BothEnds(c) == SubSeq(c, FirstText(c), LastText(c)) \o <<"\n">>

CommentsStep ==
    /\ UpdateStep
    /\ "comments" \in DOMAIN updated_nics[idx]
    /\ "comments" \in DOMAIN existing_nics[updated_nics[idx]["name"]]

CommentsCompared(norm) ==
    LET name == updated_nics[idx]["name"]
        old == existing_nics[name]["comments"]
    IN  /\ updated_nics'[idx]["comments"] = norm
        /\ IF norm = old
           THEN name \in DOMAIN ret' => "comments" \notin DOMAIN ret'[name]
           ELSE /\ name \in DOMAIN ret'
                /\ ReportedAs(ret'[name], "comments", old, norm)

\* C15 as stated: before the comparison the declared comments lose only
\* their trailing newlines and get one newline appended; leading newlines
\* stay, so a comment that differs from the current one only by leading
\* newlines is reported as changed.
CexC15 ==
    [][CommentsStep => CommentsCompared(TrailingOnly(updated_nics[idx]["comments"]))]_vars

\* C15 amended: before the comparison the declared comments lose their
\* leading and their trailing newlines and get one newline appended; the
\* characters in between, newlines included, are kept.  A comment that
\* differs from the current one only by leading or trailing newlines is not
\* reported as changed.
ThmC15 ==
    [][CommentsStep => CommentsCompared(BothEnds(updated_nics[idx]["comments"]))]_vars

WitC15 ==
    /\ DiffReturned
    /\ \E i \in DOMAIN updated_nics :
           LET name == updated_nics[i]["name"]
           IN  /\ "comments" \in DOMAIN updated_nics[i]
               /\ updated_nics[i]["comments"] = <<"x", "\n", "y", "\n">>
               /\ name \in DOMAIN ret
               /\ ReportedAs(ret[name], "comments", <<"x", "\n">>, <<"x", "\n", "y", "\n">>)

DeclaredNames == { updated_nics[i]["name"] : i \in DOMAIN updated_nics }

Produces(d) ==
    IF d["state"] = "absent" THEN d["name"] \in LiveNames
    ELSE IF d["name"] \notin LiveNames THEN TRUE
    ELSE \E k \in DOMAIN d :
            /\ k \in DOMAIN Live(d["name"])
            /\ PyNotEqual(k, Normalized(k, d[k]), Live(d["name"])[k])

\* C16: when get_config_diff returns, the result is None or a non-empty
\* mapping; it is None exactly when no declaration produced a change entry;
\* every key of the mapping is the name of a declaration, so a live
\* interface that is not declared gets no change and no deletion.
ThmC16 ==
    DiffReturned =>
        /\ result.exc = "none"
        /\ \/ result.value = PyNone
           \/ result.value = PyDict(ret) /\ DOMAIN ret # {}
        /\ result.value = PyNone <=> \A i \in DOMAIN updated_nics : ~Produces(updated_nics[i])
        /\ DOMAIN ret \subseteq DeclaredNames
        /\ \A n \in LiveNames \ DeclaredNames : n \notin DOMAIN ret

WitC16 ==
    /\ DiffReturned
    /\ result.value # PyNone
    /\ LiveNames \ DeclaredNames # {}
    /\ DOMAIN result.value.dict = DeclaredNames
    /\ \E n \in DOMAIN result.value.dict \cap LiveNames :
           /\ DOMAIN result.value.dict[n] = {"before", "after"}
           /\ result.value.dict[n].after = PyStr("absent")
           /\ result.value.dict[n].before = PyDict(Live(n))

====
